---------------------------- MODULE Spec2Model ----------------------------
(***************************************************************************)
(* Model of the scripts of rhdh-plugin-export-overlays:                    *)
(*   .github/scripts/generate-wiki-page.py  the workspace report generator *)
(*   docs/rhdh1.8_vs_1.9.py                 the support-level diff script  *)
(*   generate_metadata.py                   the metadata generator         *)
(*                                                                         *)
(* A Python string is a sequence of text atoms (a character, or a word no  *)
(* pattern of the code can split).  An Optional[str] is a record: None,   *)
(* or Some(s) for the string s.                                            *)
(***************************************************************************)
EXTENDS Integers, Sequences, FiniteSets, TLC

VARIABLES
    \* parse_plugins_list applied to one plugins-list.yaml
    pl_file, pl_out, pl_pc,
    \* check_support_status called against the two preloaded allow-lists
    cs_supported, cs_community, cs_path, cs_ws, cs_out, cs_pc,
    \* the Backstage Version cell of generate_markdown for one workspace record
    vc_overlay, vc_source, vc_cell, vc_pc,
    \* rhdh1.8_vs_1.9.py: the old tree, the rglob result, the script's globals
    dv_old, dv_rglob, dv_metadata_files, dv_i, dv_plugin_name, dv_new_support,
    dv_old_exists, dv_old_support, dv_found_entries, dv_not_found_entries,
    dv_output, dv_pc,
    \* generate_metadata.py: the input file, the script's globals, the files
    \* written, the writes made in input order
    g_exists, g_lineno, g_line, g_source_plugin_path, g_final_path, g_plugin_name_sanitized,
    g_plugin_type, g_output_dir, g_dirs, g_files, g_exit, g_pc, g_writes,
    \* generate-wiki-page.py main: the workspaces directory, whether the gh CLI is
    \* installed, the files of the workspaces processed so far, main's locals, the
    \* report file, the uncaught exception if any
    m_root, m_gh, m_files, m_workspace_names, m_supported_plugins, m_community_plugins,
    m_workspaces_data, m_report, m_error, m_pc,
    \* get_commit_details called once: its arguments, whether the gh CLI is
    \* installed, the API response, the result
    cd_repo_url, cd_commit_sha, cd_gh, cd_response, cd_out, cd_pc,
    \* the details entry main builds for one plugin: the workspace's repository
    \* and commit, the plugin path, the fetch made and its outcome, the result
    pd_repo_url, pd_commit_sha, pd_path, pd_fetched, pd_outcome, pd_out, pd_pc

pluginsVars == <<pl_file, pl_out, pl_pc>>

supportVars == <<cs_supported, cs_community, cs_path, cs_ws, cs_out, cs_pc>>

versionVars == <<vc_overlay, vc_source, vc_cell, vc_pc>>

diffVars == <<dv_old, dv_rglob, dv_metadata_files, dv_i, dv_plugin_name, dv_new_support,
              dv_old_exists, dv_old_support, dv_found_entries, dv_not_found_entries,
              dv_output, dv_pc>>

genVars == <<g_exists, g_lineno, g_line, g_source_plugin_path, g_final_path,
             g_plugin_name_sanitized, g_plugin_type, g_output_dir, g_dirs, g_files,
             g_exit, g_pc, g_writes>>

mainVars == <<m_root, m_gh, m_files, m_workspace_names, m_supported_plugins,
              m_community_plugins, m_workspaces_data, m_report, m_error, m_pc>>

commitVars == <<cd_repo_url, cd_commit_sha, cd_gh, cd_response, cd_out, cd_pc>>

detailsVars == <<pd_repo_url, pd_commit_sha, pd_path, pd_fetched, pd_outcome, pd_out, pd_pc>>

vars == <<pluginsVars, supportVars, versionVars, diffVars, genVars, mainVars, commitVars,
          detailsVars>>

notPlugins == <<supportVars, versionVars, diffVars, genVars, mainVars,
    commitVars, detailsVars>>

notSupport == <<pluginsVars, versionVars, diffVars, genVars, mainVars,
    commitVars, detailsVars>>

notVersion == <<pluginsVars, supportVars, diffVars, genVars, mainVars,
    commitVars, detailsVars>>

notDiff == <<pluginsVars, supportVars, versionVars, genVars, mainVars,
    commitVars, detailsVars>>

notGen == <<pluginsVars, supportVars, versionVars, diffVars, mainVars,
    commitVars, detailsVars>>

notMain == <<pluginsVars, supportVars, versionVars, diffVars, genVars,
    commitVars, detailsVars>>

notCommit == <<pluginsVars, supportVars, versionVars, diffVars, genVars, mainVars,
               detailsVars>>

notDetails == <<pluginsVars, supportVars, versionVars, diffVars, genVars, mainVars,
                commitVars>>

(***************************************************************************)
(* Sequences as Python strings and lists                                   *)
(***************************************************************************)
Min(a, b) == IF a <= b THEN a ELSE b

\* all sequences over S of length 0..n
SeqsUpTo(S, n) == UNION {[1..k -> S] : k \in 0..n}

\* sequences without a repeated element
Distinct(s) == \A i, j \in 1..Len(s) : i # j => s[i] # s[j]

StartsWith(s, p) == Len(p) <= Len(s) /\ SubSeq(s, 1, Len(p)) = p

EndsWith(s, p) == Len(p) <= Len(s) /\ SubSeq(s, Len(s) - Len(p) + 1, Len(s)) = p

Drop(s, n) == SubSeq(s, n + 1, Len(s))

\* x in list
InList(x, list) == \E i \in 1..Len(list) : list[i] = x

\* sub in s, for a non-empty sub
Contains(s, sub) ==
    \E i \in 1..Len(s) : i + Len(sub) - 1 <= Len(s) /\ SubSeq(s, i, i + Len(sub) - 1) = sub

None == [some |-> FALSE, val |-> << >>]

Some(s) == [some |-> TRUE, val |-> s]

\* bool(x) of an Optional[str]: None and the empty string are false
Truthy(x) == x.some /\ x.val # << >>

\* a or b
PyOr(a, b) == IF Truthy(a) THEN a ELSE b

(***************************************************************************)
(* generate-wiki-page.py: parse_plugins_list                               *)
(***************************************************************************)
MaxPlugins == 3

PluginKeys == {"a", "b", "c"}

YamlValues == {"null", "v"}

\* A plugins-list.yaml as yaml.safe_load sees it.  kind:
\*   missing     the file does not exist
\*   unreadable  open() raises IOError
\*   blank       empty or whitespace-only content
\*   invalid     yaml.safe_load raises YAMLError
\*   mapping     a YAML mapping; `mapping` holds its entries in document order
\*   list        a YAML sequence; `list` holds its items
\*   scalar      a YAML scalar (string, number)
\*   null        a document with no node (comments only): safe_load gives None
NoYamlBody(k) == [kind |-> k, mapping |-> << >>, list |-> << >>]

YamlMappings(n) ==
    {[kind |-> "mapping",
      mapping |-> [i \in 1..Len(ks) |-> [key |-> ks[i], value |-> vs[i]]],
      list |-> << >>] :
        <<ks, vs>> \in {p \in SeqsUpTo(PluginKeys, n) \X SeqsUpTo(YamlValues, n) :
                          Len(p[1]) = Len(p[2]) /\ Distinct(p[1])}}

YamlLists(n) ==
    {[kind |-> "list", mapping |-> << >>, list |-> items] :
        items \in SeqsUpTo(PluginKeys, n)}

PluginsYamlFiles ==
    {NoYamlBody(k) : k \in {"missing", "unreadable", "blank", "invalid", "scalar", "null"}}
        \cup YamlMappings(MaxPlugins) \cup YamlLists(MaxPlugins)

\* list(data.keys()): a dict keeps its keys in insertion order
DictKeys(m) == [i \in 1..Len(m) |-> m[i].key]

parse_plugins_list_ValuesForKeys(f) ==
    CASE f.kind = "mapping" -> [i \in 1..Len(f.mapping) |-> f.mapping[i].value]
      [] f.kind = "list" -> f.list
      [] OTHER -> << >>

parse_plugins_list(f) ==
    CASE f.kind = "missing" -> << >>
      [] f.kind \in {"unreadable", "invalid"} -> << >>
      [] f.kind = "blank" -> << >>
      [] f.kind = "mapping" -> DictKeys(f.mapping)
      [] f.kind = "list" -> f.list
      [] OTHER -> << >>

PluginsIdle == pl_file = NoYamlBody("missing") /\ pl_out = << >> /\ pl_pc = "off"

PluginsInit ==
    /\ pl_file \in PluginsYamlFiles
    /\ pl_out = << >>
    /\ pl_pc = "call"

PluginsParse ==
    /\ pl_pc = "call"
    /\ pl_out' = parse_plugins_list(pl_file)
    /\ pl_pc' = "returned"
    /\ UNCHANGED <<pl_file, notPlugins>>

(***************************************************************************)
(* generate-wiki-page.py: check_support_status                             *)
(***************************************************************************)
MaxPathLen == 3

MaxListLen == 1

PathChars == {".", "/", "p"}

PluginPaths == SeqsUpTo(PathChars, MaxPathLen)

WorkspaceNames == {<<"w">>, <<"x">>}

\* lines that the allow-list files rhdh-supported-plugins.txt and
\* rhdh-community-plugins.txt may hold
ListedPaths == {<<"p">>, <<"w", "/", "p">>, <<".", "/", "p">>, <<"/", "p">>}

AllowLists == {l \in SeqsUpTo(ListedPaths, MaxListLen) : Distinct(l)}

\* str.lstrip(chars): drop the leading characters that are in chars
RECURSIVE LStrip(_, _)
LStrip(s, chars) ==
    IF s # << >> /\ s[1] \in chars THEN LStrip(Tail(s), chars) ELSE s

clean_plugin_path(plugin_path) == LStrip(LStrip(plugin_path, {".", "/"}), {"/"})

full_path(plugin_path, workspace_name) ==
    workspace_name \o <<"/">> \o clean_plugin_path(plugin_path)

check_support_status_CleanFirst(plugin_path, workspace_name, supported_list, community_list) ==
    LET clean == clean_plugin_path(plugin_path)
        full == full_path(plugin_path, workspace_name)
    IN  IF InList(clean, supported_list) THEN "Supported"
        ELSE IF InList(clean, community_list) THEN "Community"
        ELSE IF InList(full, supported_list) THEN "Supported"
        ELSE IF InList(full, community_list) THEN "Community"
        ELSE "Unknown"

check_support_status(plugin_path, workspace_name, supported_list, community_list) ==
    LET clean == clean_plugin_path(plugin_path)
        full == full_path(plugin_path, workspace_name)
    IN  IF InList(full, supported_list) THEN "Supported"
        ELSE IF InList(full, community_list) THEN "Community"
        ELSE IF InList(clean, supported_list) THEN "Supported"
        ELSE IF InList(clean, community_list) THEN "Community"
        ELSE "Unknown"

SupportIdle ==
    /\ cs_supported = << >> /\ cs_community = << >>
    /\ cs_path = << >> /\ cs_ws = << >> /\ cs_out = "" /\ cs_pc = "off"

SupportInit ==
    /\ cs_supported \in AllowLists
    /\ cs_community \in AllowLists
    /\ cs_path = << >> /\ cs_ws = << >> /\ cs_out = ""
    /\ cs_pc = "loaded"

\* one call, as main makes for each plugin of each workspace
SupportCheck ==
    /\ cs_pc = "loaded"
    /\ \E p \in PluginPaths, w \in WorkspaceNames :
          /\ cs_path' = p
          /\ cs_ws' = w
          /\ cs_out' = check_support_status(p, w, cs_supported, cs_community)
    /\ cs_pc' = "returned"
    /\ UNCHANGED <<cs_supported, cs_community, notSupport>>

(***************************************************************************)
(* generate-wiki-page.py: the Backstage Version cell of generate_markdown   *)
(***************************************************************************)
MaxVersionLen == 2

VersionChars == {"1", "2", "\""}

Versions == SeqsUpTo(VersionChars, MaxVersionLen)

OptVersions == {None} \cup {Some(v) : v \in Versions}

SpanOpen == "<span style=\"color: #ff6b35;\" title=\""

SpanMid == "\">"

SpanClose == "</span>"

\* the code-span delimiter of Markdown (U+0060)
Tick == "BACKTICK"

\* str.replace of the double quote by the entity &quot;
QuotEscape(s) == [i \in 1..Len(s) |-> IF s[i] = "\"" THEN "&quot;" ELSE s[i]]

OverrideTooltip(overlay_version, source_version) ==
    QuotEscape(<<"Overlay overrides upstream version ">> \o source_version
                   \o <<" to ">> \o overlay_version)

backstage_version_cell_NoOverride(overlay_version, source_version) ==
    LET display_version == PyOr(source_version, overlay_version)
    IN  IF Truthy(display_version)
        THEN <<Tick>> \o display_version.val \o <<Tick>>
        ELSE <<"N/A">>

backstage_version_cell(overlay_version, source_version) ==
    LET display_version == PyOr(source_version, overlay_version)
    IN  IF Truthy(display_version)
        THEN IF /\ Truthy(overlay_version) /\ Truthy(source_version)
                /\ overlay_version.val # source_version.val
             THEN <<SpanOpen>> \o OverrideTooltip(overlay_version.val, source_version.val)
                      \o <<SpanMid, Tick>> \o display_version.val \o <<Tick, SpanClose>>
             ELSE <<Tick>> \o display_version.val \o <<Tick>>
        ELSE <<"N/A">>

VersionIdle ==
    vc_overlay = None /\ vc_source = None /\ vc_cell = << >> /\ vc_pc = "off"

VersionInit ==
    /\ vc_overlay \in OptVersions
    /\ vc_source \in OptVersions
    /\ vc_cell = << >>
    /\ vc_pc = "record"

VersionRender ==
    /\ vc_pc = "record"
    /\ vc_cell' = backstage_version_cell(vc_overlay, vc_source)
    /\ vc_pc' = "rendered"
    /\ UNCHANGED <<vc_overlay, vc_source, notVersion>>

(***************************************************************************)
(* docs/rhdh1.8_vs_1.9.py: the support-level diff script                   *)
(***************************************************************************)
MaxFiles == 2

\* file stems in sorting order
Stems == <<"x", "y">>

StemSet == {Stems[i] : i \in 1..Len(Stems)}

StemRank(stem) == CHOOSE i \in 1..Len(Stems) : Stems[i] = stem

WorkspaceDirs == {"w1", "w2"}

\* the files workspaces_dir.rglob('metadata/*.yaml') can find
MetadataFiles == [dir : WorkspaceDirs, name : {<<stem, ".yaml">> : stem \in StemSet}]

\* What a metadata file holds, as extract_support_tag sees it.  kind:
\*   tag       a mapping with spec.support set to `tag`
\*   notag     a mapping with no spec, or a spec mapping with no support
\*   badshape  an empty document or a spec that is no mapping: .get raises
SupportTags == {"production", "tech-preview", "NOT FOUND"}

MetadataContents ==
    {[kind |-> "tag", tag |-> t] : t \in SupportTags}
        \cup {[kind |-> "notag", tag |-> ""], [kind |-> "badshape", tag |-> ""]}

Absent == [kind |-> "absent", tag |-> ""]

extract_support_tag(content) ==
    CASE content.kind = "tag" -> <<content.tag>>
      [] content.kind = "notag" -> <<"N/A">>
      [] OTHER -> <<"ERROR: ", "'NoneType' object has no attribute 'get'">>

\* os.path.splitext(os.path.basename(file_path))[0]
get_plugin_name(file) == SubSeq(file.name, 1, Len(file.name) - 1)

style_support_level(support_level) ==
    IF support_level = <<"production">> THEN <<"[.green]#", "production", "#">>
    ELSE IF support_level = <<"tech-preview">> THEN <<"[.blue]#", "tech-preview", "#">>
    ELSE IF support_level = <<"generally-available">>
         THEN <<"[.green]#", "generally-available", "#">>
    ELSE support_level

\* list.sort(key=lambda x: x.name): stable, by file name
RECURSIVE InsertByName(_, _)
InsertByName(sorted, f) ==
    IF sorted = << >> THEN <<f>>
    ELSE IF StemRank(sorted[Len(sorted)].name[1]) <= StemRank(f.name[1])
         THEN Append(sorted, f)
         ELSE Append(InsertByName(SubSeq(sorted, 1, Len(sorted) - 1), f), sorted[Len(sorted)])

RECURSIVE SortByName(_)
SortByName(files) ==
    IF files = << >> THEN << >>
    ELSE InsertByName(SortByName(SubSeq(files, 1, Len(files) - 1)), files[Len(files)])

NotFound == <<"NOT FOUND">>

\* the list the comparison appends the entry to
comparison_list_IgnoringEquality(old_support, new_support) ==
    IF old_support = NotFound THEN "not_found" ELSE "found"

comparison_list(old_support, new_support) ==
    IF old_support # new_support
    THEN IF old_support = NotFound THEN "not_found" ELSE "found"
    ELSE "none"

ChangedRow(entry) ==
    [plugin |-> entry[1], old |-> style_support_level(entry[2]),
     new |-> style_support_level(entry[3])]

NewRow(entry) == [plugin |-> entry[1], new |-> style_support_level(entry[3])]

NoOutput == [written |-> FALSE, changed |-> << >>, new |-> << >>]

DiffIdle ==
    /\ dv_old = [s \in StemSet |-> Absent]
    /\ dv_rglob = << >> /\ dv_metadata_files = << >> /\ dv_i = 0
    /\ dv_plugin_name = << >> /\ dv_new_support = << >>
    /\ dv_old_exists = FALSE /\ dv_old_support = << >>
    /\ dv_found_entries = << >> /\ dv_not_found_entries = << >>
    /\ dv_output = NoOutput /\ dv_pc = "off"

DiffInit ==
    /\ dv_old \in [StemSet -> {Absent} \cup MetadataContents]
    /\ dv_rglob \in {fs \in SeqsUpTo(MetadataFiles, MaxFiles) : Distinct(fs)}
    /\ dv_metadata_files = << >> /\ dv_i = 0
    /\ dv_plugin_name = << >> /\ dv_new_support = << >>
    /\ dv_old_exists = FALSE /\ dv_old_support = << >>
    /\ dv_found_entries = << >> /\ dv_not_found_entries = << >>
    /\ dv_output = NoOutput /\ dv_pc = "collect"

\* lines 35-45
DiffCollect ==
    /\ dv_pc = "collect"
    /\ dv_metadata_files' = SortByName(dv_rglob)
    /\ dv_pc' = "compare"
    /\ UNCHANGED <<dv_old, dv_rglob, dv_i, dv_plugin_name, dv_new_support, dv_old_exists,
                   dv_old_support, dv_found_entries, dv_not_found_entries, dv_output>>
    /\ UNCHANGED notDiff

\* one iteration of the loop of lines 47-64; the new file is read here
DiffCompare ==
    /\ dv_pc = "compare"
    /\ dv_i < Len(dv_metadata_files)
    /\ \E content \in MetadataContents :
          LET new_file == dv_metadata_files[dv_i + 1]
              plugin_name == get_plugin_name(new_file)
              new_support == extract_support_tag(content)
              old_content == dv_old[new_file.name[1]]
              old_exists == old_content # Absent
              old_support == IF old_exists THEN extract_support_tag(old_content)
                             ELSE NotFound
              entry == <<plugin_name, old_support, new_support>>
              list == comparison_list(old_support, new_support)
          IN  /\ dv_plugin_name' = plugin_name
              /\ dv_new_support' = new_support
              /\ dv_old_exists' = old_exists
              /\ dv_old_support' = old_support
              /\ dv_found_entries' =
                    IF list = "found" THEN Append(dv_found_entries, entry)
                    ELSE dv_found_entries
              /\ dv_not_found_entries' =
                    IF list = "not_found" THEN Append(dv_not_found_entries, entry)
                    ELSE dv_not_found_entries
    /\ dv_i' = dv_i + 1
    /\ UNCHANGED <<dv_old, dv_rglob, dv_metadata_files, dv_output, dv_pc>>
    /\ UNCHANGED notDiff

\* lines 66-100: the two tables, written to support_tags_comparison.adoc
DiffRender ==
    /\ dv_pc = "compare"
    /\ dv_i = Len(dv_metadata_files)
    /\ dv_output' =
          [written |-> TRUE,
           changed |-> [k \in 1..Len(dv_found_entries) |-> ChangedRow(dv_found_entries[k])],
           new |-> [k \in 1..Len(dv_not_found_entries) |-> NewRow(dv_not_found_entries[k])]]
    /\ dv_pc' = "done"
    /\ UNCHANGED <<dv_old, dv_rglob, dv_metadata_files, dv_i, dv_plugin_name, dv_new_support,
                   dv_old_exists, dv_old_support, dv_found_entries, dv_not_found_entries>>
    /\ UNCHANGED notDiff

(***************************************************************************)
(* generate_metadata.py: the metadata generator                            *)
(***************************************************************************)
MaxLines == 2

FirstSegments == {<<"backstage">>, <<"3scale">>}

MiddleSegments == {<<"plugins">>, <<"packages">>, <<"kubernetes">>}

LastSegments ==
    {<<"kubernetes">>, <<"3scale-", "backend">>, <<"backstage-plugin-", "kubernetes">>}

\* plugin paths of one to four segments
GenPaths ==
    FirstSegments
        \cup {a \o <<"/">> \o c : a \in FirstSegments, c \in MiddleSegments \cup LastSegments}
        \cup {a \o <<"/">> \o b \o <<"/">> \o c :
                a \in FirstSegments, b \in MiddleSegments, c \in MiddleSegments \cup LastSegments}
        \cup {a \o <<"/">> \o b \o <<"/">> \o c \o <<"/">> \o d :
                a \in {<<"backstage">>}, b \in MiddleSegments, c \in MiddleSegments,
                d \in {<<"kubernetes">>}}

\* the lines the downstream-plugins file may hold
GenLines ==
    {<<"\n">>, <<" ", "\n">>}
        \cup {pre \o path \o post :
                pre \in {<< >>, <<" ">>},
                path \in GenPaths,
                post \in {<<"\n">>, <<"/", ".", "\n">>}}
        \cup {pre \o path \o <<"\n">> :
                pre \in {<<"#">>, <<" ", "#">>, <<"#", " ">>},
                path \in {<<"3scale">>, <<"backstage", "/", "plugins", "/", "kubernetes">>}}

Whitespace == {" ", "\n"}

RECURSIVE RStrip(_, _)
RStrip(s, chars) ==
    IF s # << >> /\ s[Len(s)] \in chars THEN RStrip(SubSeq(s, 1, Len(s) - 1), chars) ELSE s

\* str.strip()
Strip(s) == RStrip(LStrip(s, Whitespace), Whitespace)

\* str.removesuffix
RemoveSuffix(s, suffix) ==
    IF EndsWith(s, suffix) THEN SubSeq(s, 1, Len(s) - Len(suffix)) ELSE s

\* re.sub(r'/(plugins|packages)/', '/', s): leftmost non-overlapping matches
RECURSIVE SubPluginsOrPackages(_)
SubPluginsOrPackages(s) ==
    IF s = << >> THEN << >>
    ELSE IF /\ Len(s) >= 3 /\ s[1] = "/" /\ s[2] \in {"plugins", "packages"} /\ s[3] = "/"
         THEN <<"/">> \o SubPluginsOrPackages(Drop(s, 3))
         ELSE <<s[1]>> \o SubPluginsOrPackages(Tail(s))

\* s.split('/')[0]
RECURSIVE FirstSegment(_)
FirstSegment(s) ==
    IF s = << >> \/ s[1] = "/" THEN << >> ELSE <<s[1]>> \o FirstSegment(Tail(s))

\* os.path.basename
RECURSIVE Basename(_)
Basename(s) ==
    IF InList("/", s) THEN Basename(Tail(s)) ELSE s

\* str.replace(old, '') for a one-atom old
Remove(s, atom) == SelectSeq(s, LAMBDA a : a # atom)

final_path_FirstSegmentAlways(source_plugin_path) == FirstSegment(source_plugin_path)

final_path(source_plugin_path) ==
    IF StartsWith(source_plugin_path, <<"backstage", "/">>)
    THEN SubPluginsOrPackages(source_plugin_path)
    ELSE FirstSegment(source_plugin_path)

plugin_type(plugin_name) ==
    IF \/ Contains(plugin_name, <<"backend", "-module">>)
       \/ Contains(plugin_name, <<"actions">>)
       \/ Contains(plugin_name, <<"processor">>)
    THEN "backstage-backend-plugin-module"
    ELSE IF Contains(plugin_name, <<"backend">>) THEN "backstage-backend-plugin"
    ELSE "backstage-plugin"

\* os.path.join(overlay_repo_root, final_path)
OutputDir(path) == <<"workspaces", "/">> \o path

\* os.makedirs: the directory and every missing ancestor
Ancestors(dir) == {SubSeq(dir, 1, k) : k \in {j \in 1..Len(dir) : j = Len(dir) \/ dir[j + 1] = "/"}}

\* open(output_file, 'w') and out.write, lines 69-70, with a file that is kept
write_descriptor_KeepExisting(files, output_dir, content) ==
    IF \E f \in files : f.dir = output_dir THEN files
    ELSE files \cup {[dir |-> output_dir, content |-> content]}

\* open(output_file, 'w') and out.write, lines 69-70: the file is replaced
write_descriptor(files, output_dir, content) ==
    {f \in files : f.dir # output_dir} \cup {[dir |-> output_dir, content |-> content]}

GenIdle ==
    /\ g_exists = FALSE /\ g_lineno = 0 /\ g_line = << >>
    /\ g_source_plugin_path = << >> /\ g_final_path = << >>
    /\ g_plugin_name_sanitized = << >> /\ g_plugin_type = "" /\ g_output_dir = << >>
    /\ g_dirs = {} /\ g_files = {} /\ g_exit = -1 /\ g_pc = "off" /\ g_writes = << >>

GenInit ==
    /\ g_exists \in BOOLEAN
    /\ g_lineno = 0 /\ g_line = << >>
    /\ g_source_plugin_path = << >> /\ g_final_path = << >>
    /\ g_plugin_name_sanitized = << >> /\ g_plugin_type = "" /\ g_output_dir = << >>
    /\ g_dirs = {} /\ g_files = {} /\ g_exit = -1 /\ g_pc = "open" /\ g_writes = << >>

\* line 29: open(downstream_plugins_file)
GenOpen ==
    /\ g_pc = "open"
    /\ g_exists
    /\ g_pc' = "lines"
    /\ UNCHANGED <<g_exists, g_lineno, g_line, g_source_plugin_path, g_final_path,
                   g_plugin_name_sanitized, g_plugin_type, g_output_dir, g_dirs, g_files,
                   g_exit, g_writes>>
    /\ UNCHANGED notGen

\* lines 74-76 with an exit status of zero
GenMissing_ExitZero ==
    /\ g_pc = "open"
    /\ ~g_exists
    /\ g_exit' = 0
    /\ g_pc' = "exited"
    /\ UNCHANGED <<g_exists, g_lineno, g_line, g_source_plugin_path, g_final_path,
                   g_plugin_name_sanitized, g_plugin_type, g_output_dir, g_dirs, g_files,
                   g_writes>>
    /\ UNCHANGED notGen

\* lines 74-76: the file is missing
GenMissing ==
    /\ g_pc = "open"
    /\ ~g_exists
    /\ g_exit' = 1
    /\ g_pc' = "exited"
    /\ UNCHANGED <<g_exists, g_lineno, g_line, g_source_plugin_path, g_final_path,
                   g_plugin_name_sanitized, g_plugin_type, g_output_dir, g_dirs, g_files,
                   g_writes>>
    /\ UNCHANGED notGen

\* the body of the loop for one line of the file, lines 31-67
LoopBody(raw) ==
    LET line == Strip(raw)
        source_plugin_path == RemoveSuffix(line, <<"/", ".">>)
        path == final_path(source_plugin_path)
        plugin_name == Basename(source_plugin_path)
    IN  [skip |-> line = << >> \/ StartsWith(line, <<"#">>),
         line |-> line,
         source_plugin_path |-> source_plugin_path,
         final_path |-> path,
         plugin_name_sanitized |-> Remove(plugin_name, "backstage-plugin-"),
         plugin_type |-> plugin_type(plugin_name),
         output_dir |-> OutputDir(path)]

LoopBodies == [raw \in GenLines |-> LoopBody(raw)]

\* lines 30-33: a blank line or a comment
GenSkipLine ==
    /\ g_pc = "lines"
    /\ g_lineno < MaxLines
    /\ \E raw \in GenLines :
          /\ LoopBodies[raw].skip
          /\ g_line' = LoopBodies[raw].line
    /\ g_lineno' = g_lineno + 1
    /\ UNCHANGED <<g_exists, g_source_plugin_path, g_final_path, g_plugin_name_sanitized,
                   g_plugin_type, g_output_dir, g_dirs, g_files, g_exit, g_pc, g_writes>>
    /\ UNCHANGED notGen

\* lines 30-72: a plugin path; its descriptor is written
GenWriteLine ==
    /\ g_pc = "lines"
    /\ g_lineno < MaxLines
    /\ \E raw \in GenLines :
          LET b == LoopBodies[raw]
              content == [name |-> b.plugin_name_sanitized, type |-> b.plugin_type,
                          url_path |-> b.final_path]
          IN  /\ ~b.skip
              /\ g_line' = b.line
              /\ g_source_plugin_path' = b.source_plugin_path
              /\ g_final_path' = b.final_path
              /\ g_plugin_name_sanitized' = b.plugin_name_sanitized
              /\ g_plugin_type' = b.plugin_type
              /\ g_output_dir' = b.output_dir
              /\ g_dirs' = g_dirs \cup Ancestors(b.output_dir)
              /\ g_files' = write_descriptor(g_files, b.output_dir, content)
              /\ g_writes' = Append(g_writes, [dir |-> b.output_dir, content |-> content])
    /\ g_lineno' = g_lineno + 1
    /\ UNCHANGED <<g_exists, g_exit, g_pc>>
    /\ UNCHANGED notGen

\* end of file, line 78
GenFinish ==
    /\ g_pc = "lines"
    /\ g_exit' = 0
    /\ g_pc' = "exited"
    /\ UNCHANGED <<g_exists, g_lineno, g_line, g_source_plugin_path, g_final_path,
                   g_plugin_name_sanitized, g_plugin_type, g_output_dir, g_dirs, g_files,
                   g_writes>>
    /\ UNCHANGED notGen

(***************************************************************************)
(* generate-wiki-page.py: the functions main calls                         *)
(***************************************************************************)
MaxDirs == 2

ShortShaLen == 7

\* characters of entry names, in code point order
NameChars == <<".", "a", "b", "c", "d">>

CharRank(c) == CHOOSE i \in 1..Len(NameChars) : NameChars[i] = c

\* a < b for strings
RECURSIVE StrLess(_, _)
StrLess(a, b) ==
    IF b = << >> THEN FALSE
    ELSE IF a = << >> THEN TRUE
    ELSE IF a[1] # b[1] THEN CharRank(a[1]) < CharRank(b[1])
    ELSE StrLess(Tail(a), Tail(b))

\* sorted(...) of a set of entries, by name
RECURSIVE SortedNames(_)
SortedNames(names) ==
    IF names = {} THEN << >>
    ELSE LET least == CHOOSE n \in names : \A other \in names \ {n} : StrLess(n, other)
         IN  <<least>> \o SortedNames(names \ {least})

\* entry names the workspaces directory may hold: one hidden, the others visible
EntryNames == {<<".", "a">>} \cup {<<NameChars[i + 1]>> : i \in 1..MaxDirs}

\* a directory listing of at most MaxDirs entries gives each name at most once
Listings ==
    {entries \in SUBSET [name : EntryNames, is_dir : BOOLEAN] :
        /\ Cardinality(entries) <= MaxDirs
        /\ \A e1, e2 \in entries : e1.name = e2.name => e1 = e2}

NoRoot == [exists |-> FALSE, entries |-> {}]

Roots == {NoRoot} \cup {[exists |-> TRUE, entries |-> l] : l \in Listings}

get_workspace_list_WithHidden(workspaces_dir) ==
    IF ~workspaces_dir.exists THEN << >>
    ELSE SortedNames({e.name : e \in {x \in workspaces_dir.entries : x.is_dir}})

get_workspace_list(workspaces_dir) ==
    IF ~workspaces_dir.exists THEN << >>
    ELSE SortedNames({e.name : e \in {x \in workspaces_dir.entries :
                                         x.is_dir /\ ~StartsWith(x.name, <<".">>)}})

GitHubPrefix == "https://github.com/"

GitHubRepo == <<GitHubPrefix, "owner/repo">>

OtherRepo == <<"https://gitlab.com/", "owner/repo">>

PinnedSha == <<"a", "b", "c", "d", "e", "f", "0", "1", "2">>

RemoteSha == <<"f", "e", "d", "c", "b", "a", "9", "8", "7">>

\* A source.json as json.load sees it.  kind:
\*   absent     the file does not exist
\*   malformed  json.load raises JSONDecodeError
\*   array      valid JSON that is a non-empty array, not an object
\*   object     an object with the keys repo, repo-ref, repo-flat and
\*              repo-backstage-version
SourceJson(kind, repo, ref, version) ==
    [kind |-> kind, repo |-> repo, ref |-> ref, flat |-> FALSE, version |-> version]

SourceJsonFiles ==
    {SourceJson(k, << >>, << >>, None) : k \in {"absent", "malformed", "array"}}
        \cup {SourceJson("object", GitHubRepo, PinnedSha, Some(<<"2">>)),
              SourceJson("object", GitHubRepo, << >>, Some(<<"2">>)),
              SourceJson("object", << >>, PinnedSha, Some(<<"2">>)),
              SourceJson("object", OtherRepo, PinnedSha, Some(<<"2">>))}

\* None, or the parsed value: "array" or "object"; a parse error is caught
parse_source_json(file) ==
    IF file.kind \in {"absent", "malformed"} THEN "None" ELSE file.kind

\* A backstage.json: absent, or an object with a version
BackstageJsonFiles == {None, Some(<<"1">>)}

get_backstage_version(backstage_json, source_json) ==
    IF backstage_json.some THEN backstage_json
    ELSE IF parse_source_json(source_json) = "object" /\ source_json.version.some
         THEN source_json.version
    ELSE None

\* The outcome of a gh command: its exit code and the lines of its stdout
GhOutcome(code, lines) == [exit_code |-> code, stdout |-> lines]

IsoDate == <<"2024-01-02", "T", "03:04", ":05Z">>

CommitOutcomes ==
    {GhOutcome(1, << >>), GhOutcome(0, << >>), GhOutcome(0, <<RemoteSha, <<"message">>>>),
     GhOutcome(0, <<RemoteSha, <<"message">>, IsoDate>>)}

PrOutcomes == {GhOutcome(1, << >>), GhOutcome(0, << >>), GhOutcome(0, <<<<"7">>>>)}

\* The outcome of requests.get(...) and response.json():
\*   ok        status 200 and a JSON object
\*   badbody   status 200 and a body that is no JSON object: caught
\*   status    a status other than 200
\*   neterror  requests.get raises: caught
HttpOutcomes == {"ok", "badbody", "status", "neterror"}

Take(s, n) == SubSeq(s, 1, Min(n, Len(s)))

\* datetime.fromisoformat(...).strftime('%Y-%m-%d %H:%M UTC'), or the date as is
FormatDate(date) ==
    IF date = IsoDate THEN <<date[1], " ", date[3], " ", "UTC">> ELSE date

NA == <<"N/A">>

\* (short_sha, message, date); the gh outcome is read only for a GitHub URL
get_commit_details(repo_url, commit_sha, outcome) ==
    IF ~StartsWith(repo_url, <<GitHubPrefix>>)
    THEN <<Take(commit_sha, ShortShaLen), NA, NA>>
    ELSE IF /\ outcome.exit_code = 0 /\ outcome.stdout # << >> /\ Len(outcome.stdout) >= 3
         THEN <<Take(outcome.stdout[1], ShortShaLen), outcome.stdout[2],
                FormatDate(outcome.stdout[3])>>
         ELSE <<Take(commit_sha, ShortShaLen), NA, NA>>

check_pending_prs_ExitCodeOnly(outcome) ==
    IF outcome.exit_code = 0
    THEN [has_pending |-> TRUE,
          pr_numbers |-> SelectSeq(outcome.stdout, LAMBDA line : line # << >>)]
    ELSE [has_pending |-> FALSE, pr_numbers |-> << >>]

\* (has_pending, pr_numbers)
check_pending_prs(outcome) ==
    IF outcome.exit_code = 0 /\ outcome.stdout # << >>
    THEN LET pr_numbers == SelectSeq(outcome.stdout, LAMBDA line : line # << >>)
         IN  [has_pending |-> Len(pr_numbers) > 0, pr_numbers |-> pr_numbers]
    ELSE [has_pending |-> FALSE, pr_numbers |-> << >>]

\* the manifest of every plugin names the package pkg at version 1.0
ManifestNameVersion == <<"pkg", "@", "1.0">>

get_plugin_details_AnyStatus(repo_url, plugin_path, outcome) ==
    IF ~StartsWith(repo_url, <<GitHubPrefix>>) THEN plugin_path
    ELSE IF outcome \in {"ok", "status"} THEN ManifestNameVersion
    ELSE plugin_path

get_plugin_details(repo_url, plugin_path, outcome) ==
    IF ~StartsWith(repo_url, <<GitHubPrefix>>) THEN plugin_path
    ELSE IF outcome = "ok" THEN ManifestNameVersion
    ELSE plugin_path

\* the upstream backstage.json, when fetched, gives version 1
get_source_backstage_version(repo_url, commit_sha, outcome) ==
    IF ~Truthy(repo_url) \/ ~Truthy(commit_sha) \/ ~StartsWith(repo_url.val, <<GitHubPrefix>>)
    THEN None
    ELSE IF outcome = "ok" THEN Some(<<"1">>)
    ELSE None

\* run_command: subprocess.run raises FileNotFoundError when gh is not installed
run_command_raises(gh_installed) == ~gh_installed

\* load_plugin_lists: the two allow-list files
SupportedPlugins == <<<<"a", "/", "p">>>>

CommunityPlugins == <<<<"p">>>>

(***************************************************************************)
(* generate-wiki-page.py: main and generate_markdown                       *)
(***************************************************************************)
\* the plugins-list.yaml files of the workspaces main scans
MainPluginsFiles ==
    {NoYamlBody("missing"), [kind |-> "list", mapping |-> << >>, list |-> <<<<"p">>>>]}

\* What main finds for one workspace: its files, and the outcome of each
\* remote call it may make for it
AllEnvs ==
    [source_json : SourceJsonFiles, plugins_yaml : MainPluginsFiles,
     backstage_json : BackstageJsonFiles, commit : CommitOutcomes, manifest : HttpOutcomes,
     upstream : HttpOutcomes, prs : PrOutcomes]

FetchesRemote(env) ==
    /\ env.source_json.kind = "object"
    /\ env.source_json.repo # << >> /\ env.source_json.ref # << >>
    /\ StartsWith(env.source_json.repo, <<GitHubPrefix>>)

\* the outcome of a call that is never made is left at one fixed value
Envs ==
    {env \in AllEnvs :
        /\ ~FetchesRemote(env) =>
              /\ env.commit = GhOutcome(1, << >>)
              /\ env.manifest = "status" /\ env.upstream = "status"
        /\ parse_plugins_list(env.plugins_yaml) = << >> => env.manifest = "status"}

FilesOf(env) ==
    [source_json |-> env.source_json, plugins_yaml |-> env.plugins_yaml,
     backstage_json |-> env.backstage_json]

NoData == [name |-> << >>]

\* One pass of the loop of main, lines 463-538, for the workspace ws_name:
\* the exception that leaves it, or the record it appends.  The counts of
\* count_additional_files and the badges made from them are not modelled.
main_loop_body(ws_name, env, gh_installed, supported_plugins, community_plugins) ==
    LET source_data == parse_source_json(env.source_json)
        plugins == parse_plugins_list(env.plugins_yaml)
        has_source == source_data # "None"
        repo_url == IF has_source THEN Some(env.source_json.repo) ELSE None
        commit_sha == IF has_source THEN Some(env.source_json.ref) ELSE None
        repo_flat == IF has_source THEN env.source_json.flat ELSE FALSE
        fetch == Truthy(repo_url) /\ Truthy(commit_sha)
        commit == IF fetch THEN get_commit_details(repo_url.val, commit_sha.val, env.commit)
                  ELSE << << >>, NA, NA>>
        prs == check_pending_prs(env.prs)
        error == IF source_data = "array" THEN "AttributeError"
                 ELSE IF /\ fetch /\ StartsWith(repo_url.val, <<GitHubPrefix>>)
                         /\ run_command_raises(gh_installed)
                      THEN "FileNotFoundError"
                 ELSE IF run_command_raises(gh_installed) THEN "FileNotFoundError"
                 ELSE ""
    IN  IF error # "" THEN [error |-> error, data |-> NoData]
        ELSE
        [error |-> "",
         data |->
           [name |-> ws_name,
            repo_url |-> repo_url,
            commit_sha |-> commit_sha,
            commit_short |-> IF fetch THEN Some(commit[1]) ELSE None,
            commit_message |-> commit[2],
            commit_date |-> commit[3],
            repo_flat |-> repo_flat,
            overlay_backstage_version |->
                get_backstage_version(env.backstage_json, env.source_json),
            source_backstage_version |->
                get_source_backstage_version(repo_url, commit_sha, env.upstream),
            plugins |->
                [i \in 1..Len(plugins) |->
                    [details |-> IF fetch
                                 THEN get_plugin_details(repo_url.val, plugins[i], env.manifest)
                                 ELSE plugins[i],
                     path |-> plugins[i],
                     status |-> check_support_status(plugins[i], ws_name, supported_plugins,
                                                     community_plugins)]],
            has_pending_prs |-> prs.has_pending,
            pr_numbers |-> prs.pr_numbers]]

\* the Source cell, lines 373-386
source_cell(ws) ==
    IF Truthy(ws.repo_url) /\ Truthy(ws.commit_sha)
    THEN <<"[">> \o Remove(ws.repo_url.val, GitHubPrefix) \o <<"@">> \o ws.commit_short.val
             \o <<"](">> \o ws.repo_url.val \o <<"/tree/">> \o ws.commit_sha.val
             \o (IF ws.repo_flat THEN << >> ELSE <<"/workspaces/">> \o ws.name) \o <<")">>
    ELSE NA

\* the Commit Date cell, line 389: the date up to its first space
commit_date_cell(ws) ==
    IF ws.commit_date # NA
    THEN LET spaces == {i \in 1..Len(ws.commit_date) : ws.commit_date[i] = " "}
             first == CHOOSE i \in spaces \cup {Len(ws.commit_date) + 1} :
                          \A j \in spaces : i <= j
         IN  SubSeq(ws.commit_date, 1, first - 1)
    ELSE << >>

status_icon(status) ==
    IF status = "Supported" THEN <<" Supported">>
    ELSE IF status = "Community" THEN <<" Community">>
    ELSE << >>

Bullet == "<br>* "

\* the Plugins cell, lines 408-428
RECURSIVE plugins_items(_)
plugins_items(plugins) ==
    IF plugins = << >> THEN << >>
    ELSE <<Bullet, Tick>> \o plugins[1].details \o <<Tick>> \o status_icon(plugins[1].status)
             \o plugins_items(Tail(plugins))

plugins_cell_Hidden(plugins) == <<"No plugins">>

plugins_cell(plugins) ==
    IF plugins # << >> THEN plugins_items(plugins) ELSE <<"No plugins">>

\* the pending-PR badge, lines 358-365: the number of the first PR
pending_pr_badge(ws) == IF ws.has_pending_prs THEN Some(ws.pr_numbers[1]) ELSE None

\* one row of the table, lines 324-431
table_row(ws) ==
    [workspace |-> ws.name,
     pending_pr |-> pending_pr_badge(ws),
     source |-> source_cell(ws),
     commit_date |-> commit_date_cell(ws),
     backstage_version |->
         backstage_version_cell(ws.overlay_backstage_version, ws.source_backstage_version),
     plugins |-> plugins_cell(ws.plugins)]

generate_markdown(workspaces_data) ==
    [total |-> Len(workspaces_data),
     rows |-> [i \in 1..Len(workspaces_data) |-> table_row(workspaces_data[i])]]

NoReport == [written |-> FALSE, total |-> 0, rows |-> << >>]

MainIdle ==
    /\ m_root = NoRoot /\ m_gh = FALSE /\ m_files = << >> /\ m_workspace_names = << >>
    /\ m_supported_plugins = << >> /\ m_community_plugins = << >>
    /\ m_workspaces_data = << >> /\ m_report = NoReport /\ m_error = "" /\ m_pc = "off"

MainInit ==
    /\ m_root \in Roots
    /\ m_gh \in BOOLEAN
    /\ m_files = << >> /\ m_workspace_names = << >>
    /\ m_supported_plugins = << >> /\ m_community_plugins = << >>
    /\ m_workspaces_data = << >> /\ m_report = NoReport /\ m_error = "" /\ m_pc = "start"

\* lines 443-461: the workspace list and the allow-lists
MainDiscover ==
    /\ m_pc = "start"
    /\ m_workspace_names' = get_workspace_list(m_root)
    /\ m_supported_plugins' = SupportedPlugins
    /\ m_community_plugins' = CommunityPlugins
    /\ m_pc' = "loop"
    /\ UNCHANGED <<m_root, m_gh, m_files, m_workspaces_data, m_report, m_error>>
    /\ UNCHANGED notMain

\* every way one pass of the loop can go, for each workspace name
LoopResults ==
    [ws_name \in EntryNames, gh_installed \in BOOLEAN |->
        {[files |-> FilesOf(env),
          result |-> main_loop_body(ws_name, env, gh_installed, SupportedPlugins,
                                    CommunityPlugins)] : env \in Envs}]

\* lines 463-538: one workspace is processed and its record appended
MainWorkspace ==
    /\ m_pc = "loop"
    /\ Len(m_files) < Len(m_workspace_names)
    /\ \E pass \in LoopResults[m_workspace_names[Len(m_files) + 1], m_gh] :
          /\ pass.result.error = ""
          /\ m_files' = Append(m_files, pass.files)
          /\ m_workspaces_data' = Append(m_workspaces_data, pass.result.data)
    /\ UNCHANGED <<m_root, m_gh, m_workspace_names, m_supported_plugins, m_community_plugins,
                   m_report, m_error, m_pc>>
    /\ UNCHANGED notMain

\* lines 463-538: an exception leaves the loop body, and main, uncaught
MainRaise ==
    /\ m_pc = "loop"
    /\ Len(m_files) < Len(m_workspace_names)
    /\ \E pass \in LoopResults[m_workspace_names[Len(m_files) + 1], m_gh] :
          /\ pass.result.error # ""
          /\ m_files' = Append(m_files, pass.files)
          /\ m_error' = pass.result.error
    /\ m_pc' = "crashed"
    /\ UNCHANGED <<m_root, m_gh, m_workspace_names, m_supported_plugins, m_community_plugins,
                   m_workspaces_data, m_report>>
    /\ UNCHANGED notMain

\* lines 540-551: generate_markdown and the write of the report file
MainRender ==
    /\ m_pc = "loop"
    /\ Len(m_files) = Len(m_workspace_names)
    /\ IF \E i \in 1..Len(m_workspaces_data) :
             m_workspaces_data[i].has_pending_prs /\ m_workspaces_data[i].pr_numbers = << >>
       THEN m_error' = "IndexError" /\ m_pc' = "crashed" /\ UNCHANGED m_report
       ELSE /\ m_report' = [written |-> TRUE] @@ generate_markdown(m_workspaces_data)
            /\ m_pc' = "done"
            /\ UNCHANGED m_error
    /\ UNCHANGED <<m_root, m_gh, m_files, m_workspace_names, m_supported_plugins,
                   m_community_plugins, m_workspaces_data>>
    /\ UNCHANGED notMain

(***************************************************************************)
(* generate-wiki-page.py: get_commit_details, one call                     *)
(***************************************************************************)
MaxMessageLines == 3

\* Commit messages: a subject line, then blank lines and body lines
CommitMessages ==
    {<<<<"subject">>>> \o rest : rest \in SeqsUpTo({<< >>, <<"body">>}, MaxMessageLines - 1)}

\* author dates: one that datetime.fromisoformat parses, one that it rejects
AuthorDates == {IsoDate, <<"yesterday">>}

\* What the commits API call comes to:
\*   error    gh exits with a non-zero code
\*   empty    gh exits with 0 and prints nothing
\*   partial  gh exits with 0 and prints fewer than three lines
\*   commit   gh exits with 0 and prints the three fields .sha, .commit.message
\*            and .commit.author.date, each string as it is
CommitResponse(kind, message, date) ==
    [kind |-> kind, sha |-> RemoteSha, message |-> message, date |-> date]

CommitResponses ==
    {CommitResponse(k, <<<<"subject">>>>, IsoDate) : k \in {"error", "empty", "partial"}}
        \cup {CommitResponse("commit", msg, d) : msg \in CommitMessages, d \in AuthorDates}

\* the exit code and the lines of stdout that run_command returns
CommitStdout(response) ==
    IF response.kind = "error" THEN GhOutcome(1, << >>)
    ELSE IF response.kind = "empty" THEN GhOutcome(0, << >>)
    ELSE IF response.kind = "partial" THEN GhOutcome(0, <<response.sha, response.message[1]>>)
    ELSE GhOutcome(0, <<response.sha>> \o response.message \o <<response.date>>)

PinnedShas == {PinnedSha, <<"a", "b", "c">>}

NoCommitResponse == CommitResponse("none", << >>, << >>)

NoCommitResult == [raised |-> FALSE, value |-> << >>]

CommitIdle ==
    /\ cd_repo_url = << >> /\ cd_commit_sha = << >> /\ cd_gh = FALSE
    /\ cd_response = NoCommitResponse /\ cd_out = NoCommitResult /\ cd_pc = "off"

CommitInit ==
    /\ cd_repo_url \in {GitHubRepo, OtherRepo}
    /\ cd_commit_sha \in PinnedShas
    /\ cd_gh \in BOOLEAN
    /\ cd_response = NoCommitResponse /\ cd_out = NoCommitResult /\ cd_pc = "call"

\* lines 122-159: the call returns, or run_command raises out of it
CommitCall ==
    /\ cd_pc = "call"
    /\ \E response \in CommitResponses :
          /\ cd_response' = response
          /\ cd_out' =
                IF StartsWith(cd_repo_url, <<GitHubPrefix>>) /\ run_command_raises(cd_gh)
                THEN [raised |-> TRUE, value |-> << >>]
                ELSE [raised |-> FALSE,
                      value |-> get_commit_details(cd_repo_url, cd_commit_sha,
                                                   CommitStdout(response))]
    /\ cd_pc' = "returned"
    /\ UNCHANGED <<cd_repo_url, cd_commit_sha, cd_gh>>
    /\ UNCHANGED notCommit

(***************************************************************************)
(* generate-wiki-page.py: the details of one plugin, main lines 493-516    *)
(***************************************************************************)
\* source_data.get('repo') and source_data.get('repo-ref') of the workspace
DetailsRepoUrls == {None, Some(<< >>), Some(GitHubRepo), Some(OtherRepo)}

DetailsCommitShas == {None, Some(<< >>), Some(PinnedSha)}

\* the details main stores for plugin_path, and whether requests.get was called
plugin_details_entry(repo_url, commit_sha, plugin_path, outcome) ==
    IF Truthy(repo_url) /\ Truthy(commit_sha)
    THEN [fetched |-> StartsWith(repo_url.val, <<GitHubPrefix>>),
          details |-> get_plugin_details(repo_url.val, plugin_path, outcome)]
    ELSE [fetched |-> FALSE, details |-> plugin_path]

DetailsIdle ==
    /\ pd_repo_url = None /\ pd_commit_sha = None /\ pd_path = << >>
    /\ pd_fetched = FALSE /\ pd_outcome = "" /\ pd_out = << >> /\ pd_pc = "off"

DetailsInit ==
    /\ pd_repo_url \in DetailsRepoUrls
    /\ pd_commit_sha \in DetailsCommitShas
    /\ pd_path = << >>
    /\ pd_fetched = FALSE /\ pd_outcome = "" /\ pd_out = << >> /\ pd_pc = "loop"

\* one plugin of the workspace; the outcome of a request that is not made is
\* recorded as the empty string
DetailsEntry ==
    /\ pd_pc = "loop"
    /\ \E plugin_path \in PluginPaths, outcome \in HttpOutcomes :
          LET entry == plugin_details_entry(pd_repo_url, pd_commit_sha, plugin_path, outcome)
          IN  /\ pd_path' = plugin_path
              /\ pd_fetched' = entry.fetched
              /\ pd_outcome' = IF entry.fetched THEN outcome ELSE ""
              /\ pd_out' = entry.details
    /\ pd_pc' = "appended"
    /\ UNCHANGED <<pd_repo_url, pd_commit_sha>>
    /\ UNCHANGED notDetails

(***************************************************************************)
(* Claims                                                                  *)
(***************************************************************************)
ListFile(items) == [kind |-> "list", mapping |-> << >>, list |-> items]

\* the entries of the workspaces directory that are workspaces: the
\* directories whose name does not start with a dot
WorkspaceDirsOf(root) ==
    IF ~root.exists THEN {}
    ELSE {e.name : e \in {x \in root.entries : x.is_dir /\ x.name[1] # "."}}

RowNames(rows) == [i \in 1..Len(rows) |-> rows[i].workspace]

NamesAscend(names) == \A i, k \in 1..Len(names) : i < k => StrLess(names[i], names[k])

\* C1: the table of a written report has exactly one row for each workspace
\* directory under the root, in the sorted order of workspace discovery, and
\* the loop takes the discovered names one by one in that order, skipping
\* and repeating none.
C1_OneRowPerWorkspace ==
    /\ m_report.written =>
          /\ {m_report.rows[i].workspace : i \in 1..Len(m_report.rows)} = WorkspaceDirsOf(m_root)
          /\ Len(m_report.rows) = Cardinality(WorkspaceDirsOf(m_root))
          /\ NamesAscend(RowNames(m_report.rows))
          /\ m_report.total = Len(m_report.rows)
    /\ m_pc \in {"loop", "done"} =>
          /\ Len(m_workspaces_data) <= Len(m_workspace_names)
          /\ \A i \in 1..Len(m_workspaces_data) :
                m_workspaces_data[i].name = m_workspace_names[i]

C1_Witness ==
    /\ m_report.written
    /\ Len(m_report.rows) = 2
    /\ m_report.rows[1].workspace # m_report.rows[2].workspace

NoDescriptor(files) == files.source_json.kind \in {"absent", "malformed"}

\* C2: a workspace whose source.json is absent or malformed gets a row with
\* N/A in the Source cell, no exception leaves its pass of the loop, and the
\* workspaces after it are still processed.
C2_NoDescriptorRowAndNoException ==
    /\ m_report.written =>
          \A i \in 1..Len(m_report.rows) :
              NoDescriptor(m_files[i]) => m_report.rows[i].source = NA
    /\ m_pc = "crashed" /\ m_files # << >> => ~NoDescriptor(m_files[Len(m_files)])

\* what plugins-list.yaml of the workspace of row i declares
DeclaredPlugins(i) == parse_plugins_list(m_files[i].plugins_yaml)

\* C3 as stated: a workspace without source.json has no plugin entries in
\* its row, whatever its other files hold.
C3_NoSourceNoPlugins ==
    m_report.written =>
        \A i \in 1..Len(m_report.rows) :
            m_files[i].source_json.kind = "absent" => m_report.rows[i].plugins = <<"No plugins">>

\* C3 amended: the Plugins cell of a workspace without source.json comes from
\* its plugins-list.yaml alone: "No plugins" when that declares none, and
\* otherwise every declared path, shown as the raw path and never as a
\* fetched name@version.
C3_NoSourcePluginsFromList ==
    m_report.written =>
        \A i \in 1..Len(m_report.rows) :
            m_files[i].source_json.kind = "absent" =>
                IF DeclaredPlugins(i) = << >>
                THEN m_report.rows[i].plugins = <<"No plugins">>
                ELSE /\ m_report.rows[i].plugins # <<"No plugins">>
                     /\ \A k \in 1..Len(DeclaredPlugins(i)) :
                           Contains(m_report.rows[i].plugins,
                                    <<Tick>> \o DeclaredPlugins(i)[k] \o <<Tick>>)
                     /\ ~Contains(m_report.rows[i].plugins, ManifestNameVersion)

C3_Witness ==
    /\ m_report.written
    /\ \E i \in 1..Len(m_report.rows) :
          /\ m_files[i].source_json.kind = "absent"
          /\ DeclaredPlugins(i) # << >>
          /\ m_report.rows[i].plugins # <<"No plugins">>

\* C4: parse_plugins_list turns a mapping into the list of its keys in
\* declaration order, which is also what the plain list of those paths
\* yields; a plain list yields its items; a missing, unreadable, blank or
\* unparseable file, and any other YAML shape, yield the empty list.
C4_NormalizesBothShapes ==
    pl_pc = "returned" =>
        /\ pl_file.kind = "mapping" =>
              /\ Len(pl_out) = Len(pl_file.mapping)
              /\ \A i \in 1..Len(pl_out) : pl_out[i] = pl_file.mapping[i].key
              /\ parse_plugins_list(ListFile(pl_out)) = pl_out
        /\ pl_file.kind = "list" => pl_out = pl_file.list
        /\ pl_file.kind \notin {"mapping", "list"} => pl_out = << >>

C4_Witness ==
    /\ pl_pc = "returned"
    /\ pl_file.kind = "mapping"
    /\ Len(pl_file.mapping) = 2
    /\ pl_file.mapping[1].value = "null" /\ pl_file.mapping[2].value = "null"
    /\ pl_out = <<"a", "b">>

\* C5 as stated: a path found verbatim in the supported list is Supported,
\* one found verbatim in the community list (and not in the supported list)
\* is Community, every other path is Unknown.
C5_VerbatimMatch ==
    cs_pc = "returned" =>
        cs_out = IF InList(cs_path, cs_supported) THEN "Supported"
                 ELSE IF InList(cs_path, cs_community) THEN "Community"
                 ELSE "Unknown"

\* C5 amended: the match is on the workspace-qualified path
\* <workspace>/<path without its leading dots and slashes> first and on the
\* stripped path alone second, the supported list before the community list
\* at each level; Unknown when none of the four matches.
C5_QualifiedThenStripped ==
    cs_pc = "returned" =>
        LET clean == clean_plugin_path(cs_path)
            full == cs_ws \o <<"/">> \o clean
            fs == InList(full, cs_supported)
            fc == InList(full, cs_community)
            ps == InList(clean, cs_supported)
            pc == InList(clean, cs_community)
        IN  /\ cs_out \in {"Supported", "Community", "Unknown"}
            /\ cs_out = "Supported" <=> (fs \/ (~fc /\ ps))
            /\ cs_out = "Community" <=> (~fs /\ (fc \/ (~ps /\ pc)))
            /\ cs_out = "Unknown" <=> ~(fs \/ fc \/ ps \/ pc)

C5_Witness ==
    /\ cs_pc = "returned"
    /\ cs_path = <<"p">> /\ cs_ws = <<"w">>
    /\ cs_supported = <<<<"w", "/", "p">>>>
    /\ cs_community = <<<<"p">>>>
    /\ cs_out = "Supported"

\* the inverse of QuotEscape on text that holds no entity of its own
QuotUnescape(s) == [i \in 1..Len(s) |-> IF s[i] = "&quot;" THEN "\"" ELSE s[i]]

IndexOf(s, a) == CHOOSE i \in 1..Len(s) : s[i] = a /\ \A j \in 1..(i - 1) : s[j] # a

HasOverrideIndicator(cell) == InList(SpanOpen, cell) \/ InList(SpanClose, cell)

\* the value of the title attribute of the highlighted cell
TitleOf(cell) == SubSeq(cell, 2, IndexOf(cell, SpanMid) - 1)

\* the text between the two code-span delimiters
ShownVersion(cell) ==
    LET first == IndexOf(cell, Tick)
        rest == Drop(cell, first)
    IN  SubSeq(rest, 1, IndexOf(rest, Tick) - 1)

\* C6: when the overlay version and the upstream version are both known and
\* differ, the cell is the highlighted span whose title names both values
\* and which shows the upstream one; when only one is known, or both are
\* equal, the cell is that single value with no highlight; when neither is
\* known the cell is N/A.
C6_VersionCell ==
    vc_pc = "rendered" =>
        LET differ == /\ Truthy(vc_overlay) /\ Truthy(vc_source)
                      /\ vc_overlay.val # vc_source.val
            known == {x.val : x \in {y \in {vc_overlay, vc_source} : Truthy(y)}}
        IN  /\ differ =>
                  /\ vc_cell[1] = SpanOpen /\ vc_cell[Len(vc_cell)] = SpanClose
                  /\ ShownVersion(vc_cell) = vc_source.val
                  /\ QuotUnescape(TitleOf(vc_cell)) =
                         <<"Overlay overrides upstream version ">> \o vc_source.val
                             \o <<" to ">> \o vc_overlay.val
            /\ (~differ /\ known # {}) =>
                  /\ ~HasOverrideIndicator(vc_cell)
                  /\ Cardinality(known) = 1
                  /\ \A v \in known : vc_cell = <<Tick>> \o v \o <<Tick>>
            /\ known = {} => vc_cell = <<"N/A">>

C6_Witness ==
    /\ vc_pc = "rendered"
    /\ vc_overlay = Some(<<"1">>) /\ vc_source = Some(<<"2", "\"">>)
    /\ HasOverrideIndicator(vc_cell)

\* the old-tree file of the same name as the file a row is about
OldFileOfRow(row) == dv_old[row.plugin[1]]

ChangedRowsDiffer ==
    /\ \A k \in 1..Len(dv_found_entries) :
          /\ dv_old[dv_found_entries[k][1][1]] # Absent
          /\ dv_found_entries[k][2] # dv_found_entries[k][3]
    /\ dv_output.written =>
          /\ Len(dv_output.changed) = Len(dv_found_entries)
          /\ Len(dv_output.new) = Len(dv_not_found_entries)
          /\ \A r \in 1..Len(dv_output.changed) :
                /\ OldFileOfRow(dv_output.changed[r]) # Absent
                /\ dv_output.changed[r].old # dv_output.changed[r].new

\* C7: an iteration over a file whose old-tree file exists and carries the
\* same support tag appends to neither list, the tables hold one row per
\* list entry, and every row of the changed table has an existing old-tree
\* file and an old value that differs from its new value.
C7_IdenticalTagsNoRow ==
    /\ [][DiffCompare /\ dv_old_exists' /\ dv_old_support' = dv_new_support' =>
             /\ dv_found_entries' = dv_found_entries
             /\ dv_not_found_entries' = dv_not_found_entries]_vars
    /\ []ChangedRowsDiffer

C7_Witness ==
    /\ dv_pc = "done"
    /\ dv_i = 2
    /\ Len(dv_output.changed) = 1 /\ Len(dv_output.new) = 0
    /\ dv_old_exists /\ dv_old_support = dv_new_support

\* C8 as stated: an iteration over a file with no old-tree file of the same
\* name appends its entry to the new list and leaves the changed list alone,
\* whatever support value the file declares; an iteration over a file whose
\* old-tree file exists leaves the new list alone.
C8_NewIffNoOldFile ==
    [][DiffCompare =>
         /\ ~dv_old_exists' =>
               /\ dv_not_found_entries' =
                     Append(dv_not_found_entries,
                            <<dv_plugin_name', dv_old_support', dv_new_support'>>)
               /\ dv_found_entries' = dv_found_entries
         /\ dv_old_exists' => dv_not_found_entries' = dv_not_found_entries]_vars

\* a path as the list of its slash-separated segments, and back
RECURSIVE SplitSlash(_)
SplitSlash(s) ==
    IF ~InList("/", s) THEN <<s>>
    ELSE <<FirstSegment(s)>> \o SplitSlash(Drop(s, Len(FirstSegment(s)) + 1))

RECURSIVE JoinSlash(_)
JoinSlash(segs) ==
    IF Len(segs) = 1 THEN segs[1]
    ELSE segs[1] \o <<"/">> \o JoinSlash(Tail(segs))

\* segment i is an inner plugins or packages segment that is dropped; the
\* segment right after a dropped one stays
RECURSIVE Dropped(_, _)
Dropped(segs, i) ==
    /\ 1 < i /\ i < Len(segs)
    /\ segs[i] \in {<<"plugins">>, <<"packages">>}
    /\ ~Dropped(segs, i - 1)

CollapsedPath(s) ==
    LET segs == SplitSlash(s)
        keep == {i \in 1..Len(segs) : ~Dropped(segs, i)}
        Nth(n) == CHOOSE i \in keep : Cardinality({j \in keep : j < i}) = n - 1
    IN  JoinSlash([n \in 1..Cardinality(keep) |-> segs[Nth(n)]])

FileAt(dir) == \E f \in g_files : f.dir = dir

IsSkippedLine(line) == line = << >> \/ line[1] = "#"

GenOutputFollowsPath ==
    g_output_dir # << >> =>
        /\ StartsWith(g_source_plugin_path, <<"backstage", "/">>) =>
              g_final_path = CollapsedPath(g_source_plugin_path)
        /\ ~StartsWith(g_source_plugin_path, <<"backstage", "/">>) =>
              g_final_path = SplitSlash(g_source_plugin_path)[1]
        /\ g_source_plugin_path = <<"backstage", "/", "plugins", "/", "kubernetes">> =>
              g_final_path = <<"backstage", "/", "kubernetes">>
        /\ g_source_plugin_path = <<"3scale", "/", "plugins", "/", "3scale-", "backend">> =>
              g_final_path = <<"3scale">>
        /\ g_output_dir = <<"workspaces", "/">> \o g_final_path
        /\ g_output_dir \in g_dirs
        /\ FileAt(g_output_dir)

\* C9: a path that starts with backstage/ has its inner plugins and
\* packages segments collapsed, any other path collapses to its first
\* segment, the descriptor is written under workspaces/<collapsed path>;
\* a blank line or a comment line creates no directory and writes no file,
\* any other line writes its descriptor.
C9_PathCollapsing ==
    /\ []GenOutputFollowsPath
    /\ [][g_lineno' = g_lineno + 1 =>
             IF IsSkippedLine(g_line')
             THEN g_files' = g_files /\ g_dirs' = g_dirs
             ELSE /\ g_source_plugin_path' = RemoveSuffix(g_line', <<"/", ".">>)
                  /\ \E f \in g_files' : f.dir = g_output_dir']_vars

C9_Witness ==
    /\ g_lineno = 2
    /\ g_line = <<"#", "3scale">>
    /\ g_source_plugin_path = <<"backstage", "/", "plugins", "/", "kubernetes">>
    /\ g_output_dir = <<"workspaces", "/", "backstage", "/", "kubernetes">>
    /\ Cardinality(g_files) = 1
    /\ FileAt(g_output_dir)

\* C10: no error outcome of a remote call aborts the run: whatever the
\* calls return, and whether or not the gh CLI can be started, main reaches
\* the end of the workspace list and writes the report.
C10_RemoteCallsBestEffort ==
    /\ m_error # "FileNotFoundError"
    /\ m_pc = "done" => m_report.written /\ Len(m_files) = Len(m_workspace_names)

\* the placeholder result: the first characters of the pinned reference
CommitFallback(commit_sha) == <<Take(commit_sha, ShortShaLen), NA, NA>>

\* a date as strftime('%Y-%m-%d %H:%M UTC') prints it when it parses
FormattedAuthorDate(date) ==
    IF date = IsoDate THEN <<"2024-01-02", " ", "03:04", " ", "UTC">> ELSE date

\* C11: get_commit_details returns (first 7 characters of the pinned
\* reference, N/A, N/A) when the URL is not a GitHub URL or the API call
\* fails, prints nothing or prints fewer than three lines; on a response
\* with the three fields it returns the remote hash, the first line of the
\* message and the author date.
C11_FallbackOrRemoteFields ==
    cd_pc = "returned" =>
        /\ ~cd_out.raised
        /\ IF ~StartsWith(cd_repo_url, <<GitHubPrefix>>) \/ cd_response.kind # "commit"
           THEN cd_out.value = CommitFallback(cd_commit_sha)
           ELSE cd_out.value = <<Take(cd_response.sha, ShortShaLen), cd_response.message[1],
                                  FormattedAuthorDate(cd_response.date)>>

\* C12: the details of a plugin are name@version only after a manifest fetch
\* with status 200 and a usable body; after any other outcome of the fetch,
\* and for a URL that is not a GitHub URL, they are the raw plugin path; with
\* no repository URL or no commit reference no fetch is made and they are
\* the raw path.
C12_RawPathUnlessFetched ==
    pd_pc = "appended" =>
        /\ pd_out \in {pd_path, ManifestNameVersion}
        /\ pd_out = ManifestNameVersion <=> pd_fetched /\ pd_outcome = "ok"
        /\ pd_fetched /\ pd_outcome \in {"badbody", "status", "neterror"} => pd_out = pd_path
        /\ ~Truthy(pd_repo_url) \/ ~Truthy(pd_commit_sha) => ~pd_fetched /\ pd_out = pd_path
        /\ Truthy(pd_repo_url) /\ ~StartsWith(pd_repo_url.val, <<GitHubPrefix>>) =>
              ~pd_fetched /\ pd_out = pd_path

C12_Witness ==
    /\ pd_pc = "appended"
    /\ pd_fetched /\ pd_outcome = "status"
    /\ pd_path # << >> /\ pd_out = pd_path

\* C13: with the input file missing the script exits with a non-zero status
\* and has created no directory and written no file; with the input file
\* present it reads the file to its end and exits with status zero.
C13_OnlyMissingInputFails ==
    /\ ~g_exists => g_dirs = {} /\ g_files = {} /\ g_writes = << >> /\ g_lineno = 0
    /\ g_pc = "exited" =>
          /\ g_exit \in {0, 1}
          /\ g_exit = 0 <=> g_exists
          /\ g_exit # 0 <=> ~g_exists
    /\ g_pc # "exited" /\ g_pc # "off" => g_exit = -1

C13_Witness ==
    /\ g_pc = "exited" /\ ~g_exists /\ g_exit = 1
    /\ g_dirs = {} /\ g_files = {}

WrittenDirs == {g_writes[i].dir : i \in 1..Len(g_writes)}

\* the last write, in input order, made to dir
LastWriteTo(dir) ==
    CHOOSE i \in 1..Len(g_writes) :
        /\ g_writes[i].dir = dir
        /\ \A k \in (i + 1)..Len(g_writes) : g_writes[k].dir # dir

\* C14: each output directory holds one metadata.yaml, the descriptor of the
\* last input line that collapses to that directory, and there are as many
\* descriptor files as distinct collapsed output paths.
C14_LastLineWins ==
    /\ {f.dir : f \in g_files} = WrittenDirs
    /\ Cardinality(g_files) = Cardinality(WrittenDirs)
    /\ \A f \in g_files : f.content = g_writes[LastWriteTo(f.dir)].content
    /\ g_writes # << >> =>
          /\ g_writes[Len(g_writes)].dir = g_output_dir
          /\ g_writes[Len(g_writes)].content.name = g_plugin_name_sanitized
          /\ g_writes[Len(g_writes)].content.type = g_plugin_type

C14_Witness ==
    /\ g_pc = "exited"
    /\ Len(g_writes) = 2
    /\ g_writes[1].dir = g_writes[2].dir
    /\ g_writes[1].content # g_writes[2].content
    /\ g_files = {g_writes[2]}

\* C15: in every record main builds has_pending_prs is true exactly when
\* pr_numbers is non-empty, so the report shows the pending-PR badge exactly
\* for the workspaces with a collected PR, with the number of the first
\* one, and reading that number never raises.
C15_PendingIffNumbers ==
    /\ \A i \in 1..Len(m_workspaces_data) :
          m_workspaces_data[i].has_pending_prs <=> m_workspaces_data[i].pr_numbers # << >>
    /\ m_error # "IndexError"
    /\ m_report.written =>
          \A i \in 1..Len(m_report.rows) :
              /\ m_report.rows[i].pending_pr.some <=> m_workspaces_data[i].pr_numbers # << >>
              /\ m_report.rows[i].pending_pr.some =>
                    m_report.rows[i].pending_pr.val = m_workspaces_data[i].pr_numbers[1]

C15_Witness ==
    /\ m_report.written
    /\ \E i, k \in 1..Len(m_report.rows) :
          /\ m_report.rows[i].pending_pr = Some(<<"7">>)
          /\ ~m_report.rows[k].pending_pr.some
          /\ m_workspaces_data[k].pr_numbers = << >>

(***************************************************************************)
(* Specifications                                                          *)
(***************************************************************************)
InitPlugins == PluginsInit /\ SupportIdle /\ VersionIdle /\ DiffIdle /\ GenIdle /\ MainIdle
    /\ CommitIdle /\ DetailsIdle

NextPlugins == PluginsParse

SpecPlugins == InitPlugins /\ [][NextPlugins]_vars

InitSupport == SupportInit /\ PluginsIdle /\ VersionIdle /\ DiffIdle /\ GenIdle /\ MainIdle
    /\ CommitIdle /\ DetailsIdle

NextSupport == SupportCheck

SpecSupport == InitSupport /\ [][NextSupport]_vars

InitVersion == VersionInit /\ PluginsIdle /\ SupportIdle /\ DiffIdle /\ GenIdle /\ MainIdle
    /\ CommitIdle /\ DetailsIdle

NextVersion == VersionRender

SpecVersion == InitVersion /\ [][NextVersion]_vars

InitDiff == DiffInit /\ PluginsIdle /\ SupportIdle /\ VersionIdle /\ GenIdle /\ MainIdle
    /\ CommitIdle /\ DetailsIdle

NextDiff == DiffCollect \/ DiffCompare \/ DiffRender

SpecDiff == InitDiff /\ [][NextDiff]_vars

InitGen == GenInit /\ PluginsIdle /\ SupportIdle /\ VersionIdle /\ DiffIdle /\ MainIdle
    /\ CommitIdle /\ DetailsIdle

NextGen == GenOpen \/ GenMissing \/ GenSkipLine \/ GenWriteLine \/ GenFinish

SpecGen == InitGen /\ [][NextGen]_vars

InitCommit == CommitInit /\ PluginsIdle /\ SupportIdle /\ VersionIdle /\ DiffIdle /\ GenIdle
    /\ MainIdle /\ DetailsIdle

NextCommit == CommitCall

SpecCommit == InitCommit /\ [][NextCommit]_vars

InitDetails == DetailsInit /\ PluginsIdle /\ SupportIdle /\ VersionIdle /\ DiffIdle /\ GenIdle
    /\ MainIdle /\ CommitIdle

NextDetails == DetailsEntry

SpecDetails == InitDetails /\ [][NextDetails]_vars

Init == MainInit /\ PluginsIdle /\ SupportIdle /\ VersionIdle /\ DiffIdle /\ GenIdle
    /\ CommitIdle /\ DetailsIdle

Next == MainDiscover \/ MainWorkspace \/ MainRaise \/ MainRender

Spec == Init /\ [][Next]_vars

=============================================================================
